---- MODULE Spec2Model ----
(***************************************************************************)
(* GestureDrop: the camera gesture loop and the shared clipboard slot of   *)
(* the two programs of the repository,                                     *)
(*     "drop"    src/gesture_drop.py         (main_loop, /get_clipboard)   *)
(*     "server"  src/gesture_file_server.py  (main, /get_clipboard,        *)
(*                                            /upload_clipboard)           *)
(* The variable `variant` says which program runs.                         *)
(*                                                                         *)
(* Units.  Time is counted in ticks of 0.05 s (0.45 s = 9, 0.9 s = 18).    *)
(* Landmark coordinates, displacements and thresholds are counted in       *)
(* hundredths of the normalised frame (0.06 = 6).  The binary64 EMA of     *)
(* gesture_drop.py is kept in hundredths, rounded to nearest.              *)
(* All the readings of time.time() one frame makes are one clock value.    *)
(* The overlay label (gesture_label, label_set_time) is not modelled.      *)
(***************************************************************************)
EXTENDS Integers, Sequences, FiniteSets, TLC

\* ---------------------------------------------------------------- CONFIG
D_SMOOTHING_WINDOW == 6
D_EMA_ALPHA == 25             \* EMA_ALPHA = 0.25, in percent
D_SCROLL_THRESHOLD == 6
D_TAB_THRESHOLD == 9
D_COOLDOWN == 18
D_GESTURE_HOLD_TIME == 9
D_SCREENSHOT_COOLDOWN == 50

S_SCROLL_THRESHOLD == 8
S_TAB_THRESHOLD == 10
S_COOLDOWN == 20
S_SMOOTHING_WINDOW == 4
S_GESTURE_HOLD_TIME == 10
S_SCREENSHOT_COOLDOWN == 60

PINCH_DIST == 5               \* pinch_dist < 0.05

\* ---------------------------------------------------------------- bounds
Epoch == 100                  \* time.time() when the loop starts
MaxTime == 240                \* no frame is read after this clock value
ShotTime == 170               \* the same, for a run with motion and long gaps
SlotFrames == 4               \* frames of a run with the query interface
MotionFrames == 5             \* frames of a run on both axes
MaxLog == 4                   \* the Copy and Paste events cp_log keeps
GapShort == 10                \* clock ticks between two frames
GapLong == 60
Base == 50                    \* a fingertip position, and two moves from it
StepX == 40
StepY == 30
AxisFrames == 2                \* frames of a run over a grid of positions
FaultFrames == 5               \* frames of a run with failing frame reads
WindowFrames == 8              \* frames of a run that fills the motion history
PoseFrames == 4                \* frames of a run over every finger configuration

None == -1                    \* Python's None, for fist_start and open_start

Gaps == {GapShort, GapLong}
Points == {<<Base, Base>>, <<Base, Base - StepY>>, <<Base + StepX, Base>>}
Still == {<<Base, Base>>}
Grid == {<<Base + a, Base + b>> : a, b \in {0, StepY, StepX}}
UpDown == {<<Base, Base>>, <<Base, Base - StepY>>}
Fist == <<0, 0, 0, 0, 0>>
Palm == <<1, 1, 1, 1, 1>>
PinchPose == <<1, 1, 0, 0, 0>>
FingerVectors == {Fist, Palm, PinchPose}
AllFingers == {<<a, b, c, d, e>> : a, b, c, d, e \in {0, 1}}
\* thumb tip minus index tip: 0.042 apart, and 0.05 apart
ThumbOffsets == {<<3, 3>>, <<3, 4>>}
CopyTexts == {"", "abc"}      \* what pyperclip.paste() returns after ctrl+c
ShotB64 == "png64"            \* base64 of the screenshot file
UploadTexts == {"", "note"}   \* JSON "text" of an upload
UploadB64 == "jpg64"          \* base64 of an uploaded image

MotionEvents == {"ScrollUp", "ScrollDown", "NextTab", "PrevTab"}

VARIABLES
    variant,                \* "drop" | "server"
    clock,                  \* the last reading of time.time() by the loop
    pc,                     \* "frame" | "value" | "keep" | "ptruth" | "parg" | "crashed" | "stopped"
    pending,                \* the loop's locals between two clipboard accesses
    pos_history,            \* pos_history / (x_history, y_history)
    ema_dx, ema_dy,
    last_action_time,
    fist_start, open_start, \* fist_start_time, open_start_time
    copy_confirmed,         \* copy_confirmed / copy_done
    last_screenshot_time,
    shared_clipboard,       \* [type, value]
    events,                 \* the events the current (last) frame fired
    seen,                   \* what the current (last) frame observed
    calls,                  \* the external calls the current (last) frame made
    last_motion,            \* the time of the last motion event, or None
    motion_count,           \* the motion events so far, counted to 2
    last_shot,              \* the time of the last Screenshot event, or None
    episode_copies,         \* the Copy events of the current run of fist frames
    cp_log,                 \* the Copy and Paste events so far, in order
    hold_since,             \* the time of the first frame of the current run of
                            \* fist frames, or of open-palm frames, or None
    reader,                 \* a /get_clipboard request in progress
    response,               \* the last /get_clipboard response
    uploader                \* a /upload_clipboard request in progress

loopVars == <<clock, pc, pending, pos_history, ema_dx, ema_dy, last_action_time,
              fist_start, open_start, copy_confirmed, last_screenshot_time,
              events, seen, calls, last_motion, motion_count, last_shot,
              episode_copies, cp_log, hold_since>>
queryVars == <<reader, response, uploader>>
vars == <<variant, loopVars, shared_clipboard, queryVars>>

\* ------------------------------------------------------------- arithmetic
Abs(n) == IF n < 0 THEN -n ELSE n
RoundDiv(n, d) == IF n >= 0 THEN (2 * n + d) \div (2 * d) ELSE -((2 * (-n) + d) \div (2 * d))
\* a count that leaves out the thumb and the index finger
SumLast3(f) == f[3] + f[4] + f[5]
Sum5(f) == f[1] + f[2] + f[3] + f[4] + f[5]
Bump(n) == IF n < 2 THEN n + 1 ELSE n
Log(l, e) == IF Len(l) < MaxLog THEN Append(l, e) ELSE l

SMOOTHING_WINDOW == IF variant = "drop" THEN D_SMOOTHING_WINDOW ELSE S_SMOOTHING_WINDOW
SCROLL_THRESHOLD == IF variant = "drop" THEN D_SCROLL_THRESHOLD ELSE S_SCROLL_THRESHOLD
TAB_THRESHOLD == IF variant = "drop" THEN D_TAB_THRESHOLD ELSE S_TAB_THRESHOLD
COOLDOWN == IF variant = "drop" THEN D_COOLDOWN ELSE S_COOLDOWN
GESTURE_HOLD_TIME == IF variant = "drop" THEN D_GESTURE_HOLD_TIME ELSE S_GESTURE_HOLD_TIME
SCREENSHOT_COOLDOWN == IF variant = "drop" THEN D_SCREENSHOT_COOLDOWN ELSE S_SCREENSHOT_COOLDOWN

\* ---------------------------------------------------------- motion smoother
\* a history that never drops its oldest sample
PushSampleKeepAll(h, p) == Append(h, p)

\* pos_history.append((x,y)); if len(pos_history) > SMOOTHING_WINDOW: pop(0)
PushSample(h, p) ==
    LET a == Append(h, p)
    IN  IF Len(a) > SMOOTHING_WINDOW THEN Tail(a) ELSE a

\* gesture_drop.py: newest minus oldest, (0, 0) with fewer than two samples
WindowDelta(h) ==
    IF Len(h) >= 2
    THEN <<h[Len(h)][1] - h[1][1], h[Len(h)][2] - h[1][2]>>
    ELSE <<0, 0>>

\* gesture_file_server.py: x_history[-1] - x_history[0], after the append
RawDelta(h) == <<h[Len(h)][1] - h[1][1], h[Len(h)][2] - h[1][2]>>

EmaStep(d, e) == RoundDiv(D_EMA_ALPHA * d + (100 - D_EMA_ALPHA) * e, 100)

\* threshold tests in which the vertical axis wins a tie
ClassifyTieScrolls(ex, ey) ==
    IF Abs(ey) > SCROLL_THRESHOLD /\ Abs(ey) >= Abs(ex)
    THEN (IF ey < 0 THEN "ScrollUp" ELSE "ScrollDown")
    ELSE IF Abs(ex) > TAB_THRESHOLD /\ Abs(ex) > Abs(ey)
         THEN (IF ex > 0 THEN "NextTab" ELSE "PrevTab")
         ELSE "None"

\* the two threshold tests, scroll first
Classify(ex, ey) ==
    IF Abs(ey) > SCROLL_THRESHOLD /\ Abs(ey) > Abs(ex)
    THEN (IF ey < 0 THEN "ScrollUp" ELSE "ScrollDown")
    ELSE IF Abs(ex) > TAB_THRESHOLD /\ Abs(ex) > Abs(ey)
         THEN (IF ex > 0 THEN "NextTab" ELSE "PrevTab")
         ELSE "None"

\* a gate that ignores the cooldown
MotionGateOpen(now, lat) == TRUE

\* gesture_drop.py: if now - last_action_time < COOLDOWN: return None
MotionGateDrop(now, lat) == ~(now - lat < COOLDOWN)
\* gesture_file_server.py: if now - last_action_time > COOLDOWN:
MotionGateServer(now, lat) == now - lat > COOLDOWN

\* update_motion_and_detect(dx, dy): the new EMA pair and the gesture it dispatches
update_motion_and_detect(d, now, lat, ex, ey) ==
    LET nx == EmaStep(d[1], ex)
        ny == EmaStep(d[2], ey)
    IN  [ema_dx |-> nx, ema_dy |-> ny,
         g |-> IF MotionGateDrop(now, lat) THEN Classify(nx, ny) ELSE "None"]

\* detect_motion_gesture(x, y), after the two appends: the gesture it dispatches
detect_motion_gesture(h, now, lat) ==
    LET d == RawDelta(h)
    IN  IF MotionGateServer(now, lat) THEN Classify(d[1], d[2]) ELSE "None"

\* --------------------------------------------------------- hold gestures
\* the fist branch without the test of the confirmation
CopyCheckNoFlag(total_f, now, fs, cc) ==
    IF total_f = 0
    THEN IF fs = None THEN "start"
         ELSE IF now - fs > GESTURE_HOLD_TIME THEN "fire" ELSE "wait"
    ELSE "reset"

\* The fist branch: "start" the timer, "fire" the copy, "wait", or "reset".
CopyCheck(total_f, now, fs, cc) ==
    IF total_f = 0
    THEN IF fs = None THEN "start"
         ELSE IF now - fs > GESTURE_HOLD_TIME /\ ~cc THEN "fire" ELSE "wait"
    ELSE "reset"

\* the open-palm branch without the test of the confirmation
PasteCheckNoFlag(total_f, now, os, cc) ==
    IF total_f = 5
    THEN IF os = None THEN "start"
         ELSE IF now - os > GESTURE_HOLD_TIME THEN "fire" ELSE "wait"
    ELSE "reset"

\* The open-palm branch.
PasteCheck(total_f, now, os, cc) ==
    IF total_f = 5
    THEN IF os = None THEN "start"
         ELSE IF now - os > GESTURE_HOLD_TIME /\ cc THEN "fire" ELSE "wait"
    ELSE "reset"

\* The timer after its branch: now, None or as it was.
TimerAfter(check, now, t) ==
    CASE check = "start" -> now
      [] check = "fire" -> None
      [] check = "reset" -> None
      [] OTHER -> t

PinchDistSq(th, idx) == (th[1] - idx[1]) * (th[1] - idx[1]) + (th[2] - idx[2]) * (th[2] - idx[2])

\* the screenshot test without its cooldown
ShotCheckNoCooldown(fv, th, idx, now, lst) ==
    /\ fv[1] = 1 /\ fv[2] = 1 /\ fv[3] + fv[4] + fv[5] = 0
    /\ PinchDistSq(th, idx) < PINCH_DIST * PINCH_DIST

\* fingers[0] == 1 and fingers[1] == 1 and sum(fingers[2:]) == 0, pinch_dist < 0.05,
\* (now - last_screenshot_time) > SCREENSHOT_COOLDOWN
ShotCheck(fv, th, idx, now, lst) ==
    /\ fv[1] = 1 /\ fv[2] = 1 /\ fv[3] + fv[4] + fv[5] = 0
    /\ PinchDistSq(th, idx) < PINCH_DIST * PINCH_DIST
    /\ now - lst > SCREENSHOT_COOLDOWN

\* ------------------------------------------------------------ the state
Idle == [pc |-> "idle", kind |-> "", value |-> ""]
NoPending == [kind |-> "none", value |-> "", g |-> "None"]
NoHand == [hand |-> FALSE, fingers |-> <<>>, near |-> FALSE, tip |-> <<>>]

Init ==
    /\ variant \in {"drop", "server"}
    /\ clock = Epoch
    /\ pc = "frame"
    /\ pending = NoPending
    /\ pos_history = <<>>
    /\ ema_dx = 0 /\ ema_dy = 0
    /\ last_action_time = 0
    /\ fist_start = None /\ open_start = None
    /\ copy_confirmed = FALSE
    /\ last_screenshot_time = 0
    /\ shared_clipboard = [type |-> "empty", value |-> ""]
    /\ events = {}
    /\ seen = NoHand
    /\ calls = <<>>
    /\ last_motion = None /\ motion_count = 0
    /\ last_shot = None /\ episode_copies = 0 /\ cp_log = <<>>
    /\ hold_since = None
    /\ reader = Idle /\ response = Idle /\ uploader = Idle

\* ------------------------------------------------------- the gesture loop
\* One external call of a frame, with its outcome (ok = FALSE: it raised).
Call(op, ok, arg) == [op |-> op, ok |-> ok, arg |-> arg]

\* pyautogui.scroll / pyautogui.hotkey of a motion gesture
InjectCalls(g, ok) == IF g = "None" THEN <<>> ELSE <<Call("inject", ok, g)>>

\* The motion call at the end of a frame of gesture_file_server.py, and the
\* end of the frame: pyautogui.scroll / hotkey raises (ok = FALSE) or returns.
EndOfFrame(g, ok, now, ev, cl) ==
    /\ pc' = IF g # "None" /\ ~ok THEN "crashed" ELSE "frame"
    /\ last_action_time' = IF g # "None" /\ ok THEN now ELSE last_action_time
    /\ events' = IF g # "None" /\ ok THEN ev \cup {g} ELSE ev
    /\ last_motion' = IF g # "None" /\ ok THEN now ELSE last_motion
    /\ motion_count' = IF g # "None" /\ ok THEN Bump(motion_count) ELSE motion_count
    /\ calls' = cl \o InjectCalls(g, ok)
    /\ pending' = NoPending

\* What a frame has to do to the clipboard slot: the two stores of a text or of
\* an image, the store of the type it read (gesture_file_server.py, no text),
\* the reads of a paste, or nothing.
SlotWork(copied, text, shot_done) ==
    IF copied /\ text # "" THEN "text"
    ELSE IF shot_done THEN "image"
    ELSE IF copied /\ variant = "server" THEN "keep"
    ELSE "none"

\* a confirmation set by every copy attempt, failed or not
ConfirmedAfterAttempt(cchk, pchk, key_ok, cc) ==
    IF cchk = "fire" THEN TRUE
    ELSE IF pchk = "fire" /\ key_ok THEN FALSE ELSE cc

\* copy_confirmed after the copy and paste branches: set after ctrl+c returned,
\* cleared after ctrl+v returned.
ConfirmedAfter(cchk, pchk, key_ok, cc) ==
    IF cchk = "fire" /\ key_ok THEN TRUE
    ELSE IF pchk = "fire" /\ key_ok THEN FALSE ELSE cc

\* the calls of a copy: ctrl+c, then pyperclip.paste() if ctrl+c returned
CopyCalls(key_ok, read_ok) ==
    IF key_ok THEN <<Call("hotkey_c", TRUE, ""), Call("clip_read", read_ok, "")>>
    ELSE <<Call("hotkey_c", FALSE, "")>>

\* a paste that injects ctrl+v before it writes the OS clipboard
PasteCallsKeyFirst(v, w_ok, key_ok) ==
    <<Call("hotkey_v", key_ok, ""), Call("clip_write", w_ok, v)>>

\* the calls of a paste that found a text: pyperclip.copy(v), then ctrl+v
PasteCalls(v, w_ok, key_ok) ==
    <<Call("clip_write", w_ok, v), Call("hotkey_v", key_ok, "")>>

\* One frame with a hand in it, up to its first access of the clipboard slot.
HandFrame(in) ==
    /\ pc = "frame"
    /\ \E gap \in in.gaps, p \in in.points, fv \in in.fingers, off \in in.thumbs :
        LET now == clock + gap
            th == <<p[1] + off[1], p[2] + off[2]>>
            total_f == Sum5(fv)
            h1 == PushSample(pos_history, p)
            m == IF variant = "drop"
                 THEN update_motion_and_detect(WindowDelta(h1), now, last_action_time,
                                               ema_dx, ema_dy)
                 ELSE [ema_dx |-> ema_dx, ema_dy |-> ema_dy,
                       g |-> detect_motion_gesture(h1, now, last_action_time)]
            cchk == CopyCheck(total_f, now, fist_start, copy_confirmed)
            pchk == PasteCheck(total_f, now, open_start, copy_confirmed)
            shot == ShotCheck(fv, th, p, now, last_screenshot_time)
            \* the paste found shared_clipboard['type'] == 'text': it reads on
            ptext == pchk = "fire" /\ shared_clipboard.type = "text"
            pnow == IF ptext THEN "read" ELSE pchk
        IN  /\ now <= in.until
            /\ clock' = now
            /\ seen' = [hand |-> TRUE, fingers |-> fv,
                        near |-> PinchDistSq(th, p) < PINCH_DIST * PINCH_DIST, tip |-> p]
            /\ pos_history' = h1
            /\ ema_dx' = m.ema_dx /\ ema_dy' = m.ema_dy
            /\ hold_since' = IF total_f \notin {0, 5} THEN None
                              ELSE IF seen.hand /\ seen.fingers = fv THEN hold_since
                              ELSE now
            /\ \E inj_ok \in (IF m.g # "None" THEN BOOLEAN ELSE {TRUE}) :
               IF variant = "drop" /\ ~inj_ok
               THEN \* pyautogui raises inside update_motion_and_detect: nothing catches it
                    /\ pc' = "crashed"
                    /\ events' = {}
                    /\ calls' = InjectCalls(m.g, FALSE)
                    /\ UNCHANGED <<pending, last_action_time, fist_start, open_start,
                                   copy_confirmed, last_screenshot_time, shared_clipboard,
                                   last_motion, motion_count, last_shot, episode_copies,
                                   cp_log>>
               ELSE \E key_ok \in (IF cchk = "fire" \/ pnow = "fire" THEN BOOLEAN ELSE {TRUE}),
                       read_ok \in (IF cchk = "fire" THEN BOOLEAN ELSE {TRUE}),
                       text \in (IF cchk = "fire" THEN in.texts ELSE {""}),
                       cap_ok \in (IF shot THEN BOOLEAN ELSE {TRUE}) :
                    LET copied == cchk = "fire" /\ key_ok
                        pasted == pnow = "fire" /\ key_ok
                        shot_done == shot /\ cap_ok
                        dropMotion == variant = "drop" /\ m.g # "None"
                        ev == (IF dropMotion THEN {m.g} ELSE {})
                              \cup (IF copied THEN {"Copy"} ELSE {})
                              \cup (IF pasted THEN {"Paste"} ELSE {})
                              \cup (IF shot_done THEN {"Screenshot"} ELSE {})
                        cl == (IF dropMotion THEN InjectCalls(m.g, TRUE) ELSE <<>>)
                              \o (IF cchk = "fire" THEN CopyCalls(key_ok, read_ok) ELSE <<>>)
                              \o (IF pnow = "fire" THEN <<Call("hotkey_v", key_ok, "")>>
                                  ELSE <<>>)
                              \o (IF shot THEN <<Call("screenshot", cap_ok, "")>> ELSE <<>>)
                        work == IF ptext THEN "paste" ELSE SlotWork(copied, text, shot_done)
                    IN  \* pyperclip.paste() is called after ctrl+c returned; text = ""
                        \* when it raised
                        /\ (read_ok = FALSE => copied)
                        /\ (text # "" => copied /\ read_ok)
                        /\ fist_start' = TimerAfter(cchk, now, fist_start)
                        /\ open_start' = TimerAfter(pchk, now, open_start)
                        /\ copy_confirmed' = ConfirmedAfter(cchk, pnow, key_ok, copy_confirmed)
                        /\ last_screenshot_time' = IF shot_done THEN now
                                                   ELSE last_screenshot_time
                        /\ last_shot' = IF shot_done THEN now ELSE last_shot
                        /\ episode_copies' = IF total_f # 0 THEN 0
                                             ELSE IF copied THEN Bump(episode_copies)
                                             ELSE episode_copies
                        /\ cp_log' = IF copied THEN Log(cp_log, "Copy")
                                     ELSE IF pasted THEN Log(cp_log, "Paste") ELSE cp_log
                        /\ shared_clipboard' =
                              CASE work = "text" -> [shared_clipboard EXCEPT !.type = "text"]
                                [] work = "image" -> [shared_clipboard EXCEPT !.type = "image"]
                                [] OTHER -> shared_clipboard
                        /\ IF work # "none" \/ variant = "drop"
                           THEN /\ pc' = CASE work = "none" -> "frame"
                                           [] work = "keep" -> "keep"
                                           [] work = "paste" -> "ptruth"
                                           [] OTHER -> "value"
                                /\ pending' =
                                      CASE work = "text" ->
                                             [kind |-> "text", value |-> text, g |-> m.g]
                                        [] work = "image" ->
                                             [kind |-> "image", value |-> ShotB64, g |-> m.g]
                                        [] work = "keep" ->
                                             [kind |-> "keep", value |-> shared_clipboard.type,
                                              g |-> m.g]
                                        [] work = "paste" ->
                                             [kind |-> "paste", value |-> "", g |-> m.g]
                                        [] OTHER -> NoPending
                                /\ events' = ev
                                /\ calls' = cl
                                /\ last_action_time' = IF dropMotion THEN now
                                                       ELSE last_action_time
                                /\ last_motion' = IF dropMotion THEN now ELSE last_motion
                                /\ motion_count' = IF dropMotion THEN Bump(motion_count)
                                                   ELSE motion_count
                           ELSE EndOfFrame(m.g, inj_ok, now, ev, cl)
    /\ UNCHANGED <<variant, queryVars>>

\* The gesture of gesture_file_server.py still to dispatch when a frame's last
\* access of the slot is done: detect_motion_gesture runs last in its frame.
LateGesture == IF variant = "server" THEN pending.g ELSE "None"

\* The second store of a clipboard write, shared_clipboard['value'] = ..., and
\* the rest of the frame.
WriteValue ==
    /\ pc = "value"
    /\ shared_clipboard' = [shared_clipboard EXCEPT !.value = pending.value]
    /\ \E inj_ok \in (IF LateGesture # "None" THEN BOOLEAN ELSE {TRUE}) :
           EndOfFrame(LateGesture, inj_ok, clock, events, calls)
    /\ UNCHANGED <<variant, clock, pos_history, ema_dx, ema_dy, fist_start, open_start,
                   copy_confirmed, last_screenshot_time, seen, last_shot, episode_copies,
                   cp_log, hold_since, queryVars>>

\* gesture_file_server.py, a copy that read no text: the store of
\* shared_clipboard["type"] = shared_clipboard.get("type","empty").
KeepType ==
    /\ pc = "keep"
    /\ shared_clipboard' = [shared_clipboard EXCEPT !.type = pending.value]
    /\ \E inj_ok \in (IF LateGesture # "None" THEN BOOLEAN ELSE {TRUE}) :
           EndOfFrame(LateGesture, inj_ok, clock, events, calls)
    /\ UNCHANGED <<variant, clock, pos_history, ema_dx, ema_dy, fist_start, open_start,
                   copy_confirmed, last_screenshot_time, seen, last_shot, episode_copies,
                   cp_log, hold_since, queryVars>>

\* The rest of a paste, from ctrl+v on, and the rest of its frame; cl are the
\* calls the paste made.
PasteDone(cl, key_ok) ==
    /\ copy_confirmed' = ConfirmedAfter("reset", "fire", key_ok, copy_confirmed)
    /\ cp_log' = IF key_ok THEN Log(cp_log, "Paste") ELSE cp_log
    /\ \E inj_ok \in (IF LateGesture # "None" THEN BOOLEAN ELSE {TRUE}) :
           EndOfFrame(LateGesture, inj_ok, clock,
                      events \cup (IF key_ok THEN {"Paste"} ELSE {}), calls \o cl)
    /\ UNCHANGED <<variant, clock, pos_history, ema_dx, ema_dy, fist_start, open_start,
                   last_screenshot_time, seen, last_shot, episode_copies, hold_since,
                   shared_clipboard, queryVars>>

\* A paste that found the type 'text': the test of shared_clipboard['value'].
PasteTruth ==
    /\ pc = "ptruth"
    /\ IF shared_clipboard.value = ""
       THEN \E key_ok \in BOOLEAN : PasteDone(<<Call("hotkey_v", key_ok, "")>>, key_ok)
       ELSE /\ pc' = "parg"
            /\ UNCHANGED <<variant, clock, pending, pos_history, ema_dx, ema_dy,
                           last_action_time, fist_start, open_start, copy_confirmed,
                           last_screenshot_time, events, seen, calls, last_motion,
                           motion_count, last_shot, episode_copies, cp_log, hold_since,
                           shared_clipboard, queryVars>>

\* A paste that found a text: the read of shared_clipboard['value'] it hands to
\* pyperclip.copy, and ctrl+v.
PasteArg ==
    /\ pc = "parg"
    /\ \E w_ok \in BOOLEAN, key_ok \in BOOLEAN :
           PasteDone(PasteCalls(shared_clipboard.value, w_ok, key_ok), key_ok)

\* One frame with no hand in it.
NoHandFrame(in) ==
    /\ pc = "frame"
    /\ \E gap \in in.gaps :
        /\ clock + gap <= in.until
        /\ clock' = clock + gap
    /\ seen' = NoHand
    /\ events' = {}
    /\ calls' = <<>>
    /\ episode_copies' = 0
    /\ hold_since' = None
    /\ IF variant = "drop"
       THEN /\ pos_history' = <<>>
            /\ fist_start' = None
            /\ open_start' = None
       ELSE UNCHANGED <<pos_history, fist_start, open_start>>
    /\ UNCHANGED <<variant, pc, pending, ema_dx, ema_dy, last_action_time, copy_confirmed,
                   last_screenshot_time, shared_clipboard, last_motion, motion_count,
                   last_shot, cp_log, queryVars>>

\* cap.read() fails: gesture_drop.py sleeps and reads again, gesture_file_server.py
\* leaves its loop.
ReadFailure ==
    /\ pc = "frame"
    /\ pc' = IF variant = "drop" THEN "frame" ELSE "stopped"
    /\ events' = {}
    /\ calls' = <<Call("cap_read", FALSE, "")>>
    /\ UNCHANGED <<variant, clock, pending, pos_history, ema_dx, ema_dy, last_action_time,
                   fist_start, open_start, copy_confirmed, last_screenshot_time, seen,
                   last_motion, motion_count, last_shot, episode_copies, cp_log,
                   hold_since, shared_clipboard, queryVars>>

\* ---------------------------------------------------- the query interface
\* GET /get_clipboard: jsonify({"type": <read>, "value": <read>}), two reads.
ReadType ==
    /\ reader.pc = "idle"
    /\ reader' = [pc |-> "type", kind |-> shared_clipboard.type, value |-> ""]
    /\ UNCHANGED <<variant, loopVars, shared_clipboard, response, uploader>>

ReadValue ==
    /\ reader.pc = "type"
    /\ response' = [pc |-> "sent", kind |-> reader.kind, value |-> shared_clipboard.value]
    /\ reader' = Idle
    /\ UNCHANGED <<variant, loopVars, shared_clipboard, uploader>>

\* an upload route in both programs
UploadTypeAnywhere ==
    /\ uploader.pc = "idle"
    /\ \E u \in {[kind |-> "text", value |-> t] : t \in UploadTexts}
              \cup {[kind |-> "image", value |-> UploadB64]} :
        /\ shared_clipboard' = [shared_clipboard EXCEPT !.type = u.kind]
        /\ uploader' = [pc |-> "value", kind |-> u.kind, value |-> u.value]
    /\ UNCHANGED <<variant, loopVars, reader, response>>

\* POST /upload_clipboard (gesture_file_server.py only): text, or an image file.
UploadType ==
    /\ variant = "server"
    /\ uploader.pc = "idle"
    /\ \E u \in {[kind |-> "text", value |-> t] : t \in UploadTexts}
              \cup {[kind |-> "image", value |-> UploadB64]} :
        /\ shared_clipboard' = [shared_clipboard EXCEPT !.type = u.kind]
        /\ uploader' = [pc |-> "value", kind |-> u.kind, value |-> u.value]
    /\ UNCHANGED <<variant, loopVars, reader, response>>

UploadValue ==
    /\ uploader.pc = "value"
    /\ shared_clipboard' = [shared_clipboard EXCEPT !.value = uploader.value]
    /\ uploader' = Idle
    /\ UNCHANGED <<variant, loopVars, reader, response>>

Loop(in) ==
    \/ HandFrame(in)
    \/ NoHandFrame(in)
    \/ WriteValue
    \/ KeepType
    \/ PasteTruth
    \/ PasteArg

Query == ReadType \/ ReadValue \/ UploadType \/ UploadValue

\* ------------------------------------------------------ specifications
\* The inputs of a run: the frames the camera delivers (clock gaps up to a last
\* clock value, index-tip positions, finger vectors, thumb offsets) and the texts
\* pyperclip.paste() returns.

\* The gesture loop and the query interface together, the hand held still.
InSlot == [gaps |-> {GapLong}, until |-> Epoch + SlotFrames * GapLong, points |-> Still,
           fingers |-> FingerVectors, thumbs |-> ThumbOffsets, texts |-> CopyTexts]
Next == Loop(InSlot) \/ Query
Spec == Init /\ [][Next]_vars

\* The gesture loop alone, the hand held still, short and long gaps.
InHold == [gaps |-> Gaps, until |-> MaxTime, points |-> Still,
           fingers |-> FingerVectors, thumbs |-> ThumbOffsets, texts |-> CopyTexts]
NextHold == Loop(InHold)
SpecHold == Init /\ [][NextHold]_vars

\* The gesture loop alone, the hand moving up and down, short and long gaps.
InShot == [gaps |-> Gaps, until |-> ShotTime, points |-> UpDown,
           fingers |-> FingerVectors, thumbs |-> ThumbOffsets, texts |-> CopyTexts]
NextShot == Loop(InShot)
SpecShot == Init /\ [][NextShot]_vars

\* The gesture loop alone, the hand moving on both axes, short gaps.
InMotion == [gaps |-> {GapShort}, until |-> Epoch + MotionFrames * GapShort, points |-> Points,
             fingers |-> FingerVectors, thumbs |-> ThumbOffsets, texts |-> CopyTexts]
NextMotion == Loop(InMotion)
SpecMotion == Init /\ [][NextMotion]_vars

\* The gesture loop alone, with frame reads that fail.
InFault == [gaps |-> {GapShort}, until |-> Epoch + FaultFrames * GapShort, points |-> UpDown,
            fingers |-> FingerVectors, thumbs |-> ThumbOffsets, texts |-> CopyTexts]
NextFault == Loop(InFault) \/ ReadFailure
SpecFault == Init /\ [][NextFault]_vars

\* The gesture loop alone, the hand jumping over a grid, long gaps, no open palm.
InAxis == [gaps |-> {GapLong}, until |-> Epoch + AxisFrames * GapLong, points |-> Grid,
           fingers |-> {Fist, PinchPose}, thumbs |-> ThumbOffsets, texts |-> CopyTexts]
NextAxis == HandFrame(InAxis) \/ NoHandFrame(InAxis) \/ WriteValue \/ KeepType
SpecAxis == Init /\ [][NextAxis]_vars

\* gesture_drop.py alone, the hand moving up and down in a pose that fires
\* nothing, short gaps: the motion history fills and drops its oldest samples.
InitDrop == Init /\ variant = "drop"
InWindow == [gaps |-> {GapShort}, until |-> Epoch + WindowFrames * GapShort, points |-> UpDown,
             fingers |-> {PinchPose}, thumbs |-> {<<3, 4>>}, texts |-> {""}]
NextWindow == HandFrame(InWindow) \/ NoHandFrame(InWindow)
SpecWindow == InitDrop /\ [][NextWindow]_vars

\* The gesture loop alone, the hand held still in any of the finger
\* configurations, long gaps.
InPose == [gaps |-> {GapLong}, until |-> Epoch + PoseFrames * GapLong, points |-> Still,
           fingers |-> AllFingers, thumbs |-> ThumbOffsets, texts |-> CopyTexts]
NextPose == Loop(InPose)
SpecPose == Init /\ [][NextPose]_vars

\* ------------------------------------------------------------- claims
FrameDone == pc = "frame"
\* a step that reads a frame
NewFrame == clock' # clock

\* C1: a frame of the gesture loop fires at most one event among ScrollUp,
\* ScrollDown, NextTab, PrevTab, Copy, Paste and Screenshot.
C1_AtMostOneEvent == Cardinality(events) <= 1

\* The complete pairs the writers of the slot store.
SlotPairs ==
    {[type |-> "empty", value |-> ""], [type |-> "image", value |-> ShotB64]}
    \cup {[type |-> "text", value |-> t] : t \in CopyTexts \ {""}}
    \cup (IF variant = "server"
          THEN {[type |-> "text", value |-> t] : t \in UploadTexts}
               \cup {[type |-> "image", value |-> UploadB64]}
          ELSE {})

\* C2: every /get_clipboard response is a complete (kind, value) pair of the
\* slot, the one before a write or the one after it, never the kind of one
\* with the value of the other.
C2_ReadIsSnapshot ==
    response.pc = "sent" => [type |-> response.kind, value |-> response.value] \in SlotPairs

\* C3: two consecutive motion events are at least COOLDOWN apart.
C3_MotionSpacing ==
    [][last_motion' # last_motion =>
          last_motion = None \/ last_motion' - last_motion >= COOLDOWN]_vars
\* a second motion event, fired while a copy is confirmed and a fist is held
C3_SecondMotion ==
    /\ motion_count = 2
    /\ events \cap MotionEvents # {}
    /\ copy_confirmed /\ fist_start # None

\* C4: within one run of consecutive fist frames Copy fires at most once.
C4_OneCopyPerEpisode == episode_copies <= 1
\* the fist still held longer than the hold time after its Copy
C4_HeldAfterCopy ==
    /\ FrameDone /\ episode_copies = 1
    /\ seen.hand /\ seen.fingers = Fist
    /\ fist_start # None /\ clock - fist_start > GESTURE_HOLD_TIME
    /\ "Copy" \notin events

\* C5: Copy and Paste events alternate, starting with Copy; Paste clears the
\* confirmation and Copy sets it.
C5_CopyPasteAlternate ==
    /\ \A i \in 1..Len(cp_log) : cp_log[i] = (IF i % 2 = 1 THEN "Copy" ELSE "Paste")
    /\ ("Paste" \in events => ~copy_confirmed)
    /\ ("Copy" \in events => copy_confirmed)
\* a Copy after a Paste after a Copy
C5_SecondCopy == cp_log = <<"Copy", "Paste", "Copy">> /\ "Copy" \in events

\* a step of the gesture loop that dispatches a Copy or a Screenshot
DispatchStep == pc' # pc /\ events' \cap {"Copy", "Screenshot"} # {}

\* C6 as stated: the slot changes only by a Copy or a Screenshot of the loop.
C6_OnlyLoopWrites == [][shared_clipboard' # shared_clipboard => DispatchStep]_vars
\* C6 as amended: ... or by an upload to gesture_file_server.py.
C6_LoopOrUploadWrites ==
    [][shared_clipboard' # shared_clipboard =>
          DispatchStep \/ (variant = "server" /\ uploader' # uploader)]_vars
\* gesture_drop.py served the text a Copy stored
C6_ServedAfterCopy ==
    /\ variant = "drop"
    /\ response.pc = "sent" /\ response.kind = "text" /\ response.value # ""
    /\ shared_clipboard = [type |-> "text", value |-> response.value]

\* C7: after a frame with no hand both hold timers are not started; after a
\* frame with an open finger the fist timer, and with a closed finger the
\* open-palm timer, is not started.
C7_TimersReset ==
    FrameDone =>
        /\ (~seen.hand => fist_start = None /\ open_start = None)
        /\ (seen.hand /\ Sum5(seen.fingers) > 0 => fist_start = None)
        /\ (seen.hand /\ Sum5(seen.fingers) < 5 => open_start = None)

\* C8: a frame with no hand clears the motion history and both hold timers and
\* leaves the confirmation, both cooldown clocks and the slot as they were.
C8_NoHandFrame ==
    [][NewFrame /\ ~seen'.hand =>
          /\ pos_history' = <<>>
          /\ fist_start' = None /\ open_start' = None
          /\ copy_confirmed' = copy_confirmed
          /\ last_action_time' = last_action_time
          /\ last_screenshot_time' = last_screenshot_time
          /\ shared_clipboard' = shared_clipboard]_vars

\* C9: a Copy that read no text leaves the slot as it was; a Copy that read a
\* text leaves the slot (Text, that text).
C9_CopyEffect ==
    [][/\ (NewFrame /\ "Copy" \in events' /\ pc' # "value"
              => shared_clipboard' = shared_clipboard)
       /\ (pc = "keep" /\ pc' # "keep" => shared_clipboard' = shared_clipboard)
       /\ (pc = "value" /\ pending.kind = "text" /\ pc' # "value"
              => shared_clipboard' = [type |-> "text", value |-> pending.value])]_vars

\* C10: a Screenshot fires only on a near pinch of thumb and index with the
\* other fingers closed, more than SCREENSHOT_COOLDOWN after the last one; it
\* stores one image in the slot and restarts the screenshot clock, and it
\* leaves the motion clock alone.
C10_Screenshot ==
    [][/\ (NewFrame /\ "Screenshot" \in events' =>
              /\ seen'.hand /\ seen'.fingers = PinchPose /\ seen'.near
              /\ clock' - last_screenshot_time > SCREENSHOT_COOLDOWN
              /\ (last_shot # None => clock' - last_shot >= SCREENSHOT_COOLDOWN)
              /\ last_screenshot_time' = clock'
              /\ shared_clipboard'.type = "image"
              /\ pc' = "value" /\ pending'.kind = "image" /\ pending'.value = ShotB64
              /\ (events' \cap MotionEvents = {} => last_action_time' = last_action_time))
       /\ (pc = "value" /\ pending.kind = "image" /\ pc' # "value" =>
              /\ shared_clipboard'.value = ShotB64
              /\ last_screenshot_time' = last_screenshot_time
              /\ (events' \cap MotionEvents = {} => last_action_time' = last_action_time))
       /\ (last_shot' # last_shot => "Screenshot" \in events')]_vars
\* a Screenshot fired while the motion cooldown was running
C10_ShotDuringMotionCooldown ==
    /\ FrameDone /\ "Screenshot" \in events
    /\ events \cap MotionEvents = {}
    /\ motion_count >= 1 /\ clock - last_action_time < COOLDOWN
    /\ shared_clipboard = [type |-> "image", value |-> ShotB64]

\* a call of one of ops that raised, among the calls cl
Failed(cl, ops) == \E i \in DOMAIN cl : cl[i].op \in ops /\ ~cl[i].ok
\* a step in which the loop made calls
NewCalls == calls' # calls /\ calls' # <<>>

\* C11: no failure of an external call made while dispatching an event takes
\* gesture_drop.py's loop to a crashed state.
C11_NeverCrashed == variant = "drop" => pc # "crashed"

\* C12: in gesture_drop.py a frame whose OS clipboard read (Copy) or OS
\* clipboard write (Paste) failed leaves the copy confirmation as it was.
C12_FlagKeptOnClipboardFailure ==
    [][variant = "drop" /\ NewCalls /\ Failed(calls', {"clip_read", "clip_write"})
          => copy_confirmed' = copy_confirmed]_vars

\* C16: a failed frame read is skipped: the loop goes on to the next frame and
\* the gesture state and the slot are as before.
C16_SkipAndRetry ==
    [][NewCalls /\ Failed(calls', {"cap_read"}) =>
          /\ pc' = "frame"
          /\ UNCHANGED <<pos_history, ema_dx, ema_dy, fist_start, open_start,
                         copy_confirmed, last_action_time, last_screenshot_time,
                         shared_clipboard>>]_vars

\* C20: in gesture_drop.py a Copy, Paste or Screenshot attempt whose key-combo
\* or screen capture raised leaves the confirmation, the screenshot clock and
\* the slot as they were and clears only its own hold timer; the next fist
\* frame after a failed Copy restarts the fist timer, and the next near pinch
\* after a failed Screenshot attempts the capture again.
C20_FailedAttempt ==
    [][variant = "drop" =>
          /\ (NewCalls /\ Failed(calls', {"hotkey_c", "hotkey_v", "screenshot"}) =>
                 /\ copy_confirmed' = copy_confirmed
                 /\ last_screenshot_time' = last_screenshot_time
                 /\ shared_clipboard' = shared_clipboard
                 /\ events' \cap {"Copy", "Paste", "Screenshot"} = {})
          /\ (NewCalls /\ Failed(calls', {"hotkey_c"}) =>
                 fist_start' = None /\ open_start' = open_start)
          /\ (NewCalls /\ Failed(calls', {"hotkey_v"}) =>
                 open_start' = None /\ fist_start' = fist_start)
          /\ (NewCalls /\ Failed(calls', {"screenshot"}) =>
                 fist_start' = None /\ open_start' = None)
          /\ (NewFrame /\ pc' # "crashed" /\ Failed(calls, {"hotkey_c"})
              /\ seen'.hand /\ seen'.fingers = Fist => fist_start' = clock')
          /\ (NewFrame /\ pc' # "crashed" /\ Failed(calls, {"screenshot"})
              /\ seen'.hand /\ seen'.fingers = PinchPose /\ seen'.near
                 => \E i \in DOMAIN calls' : calls'[i].op = "screenshot")]_vars
\* a Copy attempt whose ctrl+c raised, with a screenshot in the slot
C20_CopyFailed ==
    /\ variant = "drop" /\ FrameDone
    /\ Failed(calls, {"hotkey_c"})
    /\ seen.hand /\ seen.fingers = Fist
    /\ fist_start = None /\ ~copy_confirmed
    /\ shared_clipboard = [type |-> "image", value |-> ShotB64]

\* the displacement the motion check of the last frame classified
Smoothed(h, ex, ey) ==
    IF variant = "drop" THEN <<ex, ey>>
    ELSE <<h[Len(h)][1] - h[1][1], h[Len(h)][2] - h[1][2]>>
\* the motion events C13 allows for the displacement d
AxisRule(d) ==
    LET ax == IF d[1] < 0 THEN -d[1] ELSE d[1]
        ay == IF d[2] < 0 THEN -d[2] ELSE d[2]
    IN  CASE ay > SCROLL_THRESHOLD /\ ay > ax /\ d[2] < 0 -> {"ScrollUp"}
          [] ay > SCROLL_THRESHOLD /\ ay > ax /\ d[2] > 0 -> {"ScrollDown"}
          [] ~(ay > SCROLL_THRESHOLD /\ ay > ax) /\ ax > TAB_THRESHOLD /\ ax > ay /\ d[1] > 0
                -> {"NextTab"}
          [] ~(ay > SCROLL_THRESHOLD /\ ay > ax) /\ ax > TAB_THRESHOLD /\ ax > ay /\ d[1] < 0
                -> {"PrevTab"}
          [] OTHER -> {}
\* a step that ends a frame with a hand in it, the motion check done
HandFrameEnds ==
    /\ pc' = "frame" /\ seen'.hand
    /\ NewFrame \/ pc \in {"value", "keep", "ptruth", "parg"}

\* C13: with the motion cooldown elapsed a frame fires the scroll or the tab
\* switch of the strictly larger axis above its threshold, scroll first, and
\* nothing on a tie.
C13_AxisDominance ==
    [][HandFrameEnds /\ clock' - last_action_time > COOLDOWN =>
          events' \cap MotionEvents = AxisRule(Smoothed(pos_history', ema_dx', ema_dy'))]_vars
\* both axes above their thresholds, the horizontal one larger: a tab switch
C13_BothAbove ==
    LET d == Smoothed(pos_history, ema_dx, ema_dy)
    IN  /\ FrameDone /\ seen.hand
        /\ "NextTab" \in events
        /\ d[2] > SCROLL_THRESHOLD /\ d[1] > d[2]

\* C14: with no confirmation pending, Copy fires on the first fist frame at
\* least GESTURE_HOLD_TIME after the first frame of the current run of fist
\* frames, and on no earlier one; firing sets the confirmation and clears the
\* fist timer.  The same for Paste, the open palm and a pending confirmation.
C14_HoldAge ==
    [][/\ ("Copy" \in events' /\ NewFrame =>
              /\ clock' - hold_since' >= GESTURE_HOLD_TIME
              /\ ~copy_confirmed /\ copy_confirmed' /\ fist_start' = None)
       /\ ("Paste" \in events' /\ "Paste" \notin events =>
              /\ clock' - hold_since' >= GESTURE_HOLD_TIME
              /\ copy_confirmed /\ ~copy_confirmed' /\ open_start' = None)
       /\ ((NewFrame /\ pc' # "crashed" /\ seen'.hand /\ seen'.fingers = Fist
            /\ ~copy_confirmed /\ fist_start # None /\ fist_start = hold_since
            /\ clock' - hold_since >= GESTURE_HOLD_TIME
            /\ ~Failed(calls', {"hotkey_c"}))
              => "Copy" \in events')
       /\ ((NewFrame /\ pc' # "crashed" /\ seen'.hand /\ seen'.fingers = Palm
            /\ copy_confirmed /\ open_start # None /\ open_start = hold_since
            /\ clock' - hold_since >= GESTURE_HOLD_TIME
            /\ ~Failed(calls', {"hotkey_v"}))
              => ("Paste" \in events' \/ pc' = "ptruth"))]_vars

\* the calls cl write v to the OS clipboard and then inject ctrl+v
WroteThenPasted(cl, v) ==
    \E i, j \in DOMAIN cl :
        /\ i < j
        /\ cl[i].op = "clip_write" /\ cl[i].arg = v
        /\ cl[j].op = "hotkey_v"
\* the calls cl inject ctrl+v and do not write the OS clipboard
PastedOnly(cl) ==
    /\ \E j \in DOMAIN cl : cl[j].op = "hotkey_v"
    /\ \A i \in DOMAIN cl : cl[i].op # "clip_write"
\* a frame in which the paste is dispatched
PasteDue ==
    /\ NewFrame /\ pc' # "crashed" /\ seen'.hand /\ seen'.fingers = Palm
    /\ copy_confirmed /\ open_start # None /\ clock' - open_start > GESTURE_HOLD_TIME

\* C15 as stated: a paste that finds the kind Text writes the slot's value to
\* the OS clipboard and then injects ctrl+v; one that finds Image or Empty
\* injects ctrl+v only; no paste changes the slot.
C15_TextIsWritten ==
    [][/\ (PasteDue /\ shared_clipboard.type # "text" =>
              PastedOnly(calls') /\ shared_clipboard' = shared_clipboard)
       /\ (PasteDue /\ shared_clipboard.type = "text" =>
              pc' = "ptruth" /\ shared_clipboard' = shared_clipboard)
       /\ (pc = "ptruth" /\ pc' # pc =>
              pc' = "parg" /\ shared_clipboard' = shared_clipboard)
       /\ (pc = "parg" /\ pc' # pc =>
              /\ WroteThenPasted(calls', shared_clipboard.value)
              /\ shared_clipboard' = shared_clipboard)]_vars

\* C15 as amended: ... finds the kind Text and a non-empty value ...; one that
\* finds Image, Empty or an empty text injects ctrl+v only.
C15_NonEmptyTextIsWritten ==
    [][/\ (PasteDue /\ shared_clipboard.type # "text" =>
              PastedOnly(calls') /\ shared_clipboard' = shared_clipboard)
       /\ (PasteDue /\ shared_clipboard.type = "text" =>
              pc' = "ptruth" /\ shared_clipboard' = shared_clipboard)
       /\ (pc = "ptruth" /\ pc' # pc =>
              /\ IF shared_clipboard.value = "" THEN PastedOnly(calls') ELSE pc' = "parg"
              /\ shared_clipboard' = shared_clipboard)
       /\ (pc = "parg" /\ pc' # pc =>
              /\ WroteThenPasted(calls', shared_clipboard.value)
              /\ shared_clipboard' = shared_clipboard)]_vars
\* a Paste that wrote the copied text to the OS clipboard
C15_PastedCopiedText ==
    /\ FrameDone /\ "Paste" \in events
    /\ WroteThenPasted(calls, "abc")
    /\ shared_clipboard = [type |-> "text", value |-> "abc"]

\* The values a slot of a consistent kind holds: nothing, a non-empty text a
\* Copy read, the encoding a Screenshot produced.
SlotOfLoop ==
    {[type |-> "empty", value |-> ""], [type |-> "image", value |-> ShotB64]}
        \cup {[type |-> "text", value |-> t] : t \in CopyTexts \ {""}}

\* C17: between frames the slot is empty, a non-empty text some Copy read or
\* the encoding some Screenshot produced, and once it is not empty it never
\* is empty again.
C17_SlotConsistent ==
    [][pc' = "frame" =>
          /\ shared_clipboard' \in SlotOfLoop
          /\ (pc = "frame" /\ shared_clipboard.type # "empty" =>
                 shared_clipboard'.type # "empty")]_vars

\* C18: after a frame with a hand the history of gesture_drop.py is the last
\* SMOOTHING_WINDOW (or fewer) samples of the previous history followed by the
\* new fingertip, in arrival order; after a frame without a hand it is empty;
\* the smoother is fed newest minus oldest, and (0, 0) under two samples.
C18_Window ==
    [][variant = "drop" /\ NewFrame =>
          IF seen'.hand
          THEN LET a == Append(pos_history, seen'.tip)
                   h == pos_history'
                   k == Len(h)
                   d == IF k < 2 THEN <<0, 0>>
                        ELSE <<h[k][1] - h[1][1], h[k][2] - h[1][2]>>
               IN  /\ k = (IF Len(a) <= D_SMOOTHING_WINDOW THEN Len(a)
                           ELSE D_SMOOTHING_WINDOW)
                   /\ \A i \in 1..k : h[i] = a[Len(a) - k + i]
                   /\ ema_dx' = EmaStep(d[1], ema_dx)
                   /\ ema_dy' = EmaStep(d[2], ema_dy)
          ELSE pos_history' = <<>>]_vars
\* a full history, later than the first SMOOTHING_WINDOW frames, whose oldest
\* and newest samples differ
C18_FullWindow ==
    /\ variant = "drop" /\ FrameDone /\ seen.hand
    /\ Len(pos_history) = D_SMOOTHING_WINDOW
    /\ clock > Epoch + D_SMOOTHING_WINDOW * GapShort
    /\ pos_history[1] # pos_history[D_SMOOTHING_WINDOW]

\* C19: a frame fires at most one of Copy, Paste and Screenshot: Copy only
\* with all five fingers closed, Paste only with all five open, Screenshot
\* only with exactly thumb and index open; and a frame that starts the fist
\* timer fires no Copy, one that starts the open-palm timer no Paste.
C19_OneHoldEvent ==
    [][/\ Cardinality(events' \cap {"Copy", "Paste", "Screenshot"}) <= 1
       /\ ("Copy" \in events' => seen'.fingers = Fist)
       /\ ("Paste" \in events' => seen'.fingers = Palm)
       /\ ("Screenshot" \in events' => seen'.fingers = PinchPose)
       /\ (NewFrame /\ fist_start = None => "Copy" \notin events')
       /\ (NewFrame /\ open_start = None =>
              "Paste" \notin events' /\ pc' \notin {"ptruth", "parg"})]_vars
\* a Copy fired in a run in which a Screenshot fired before
C19_CopyAfterShot ==
    /\ FrameDone /\ "Copy" \in events /\ seen.fingers = Fist
    /\ last_shot # None /\ last_shot < clock

====
